---- MODULE Spec2Model ----
(***************************************************************************)
(* TracerPythonScript (lightning_app/components/python/tracer.py) and the  *)
(* RunIf test decorator (tests_pytorch/helpers/runif.py) as state machines.*)
(*                                                                         *)
(* Python dicts are functions with a varying DOMAIN.  A Python value is a  *)
(* record [wrap, val]: wrap counts the Payload envelopes around val.       *)
(* Output names are taken distinct from the four configuration attributes  *)
(* (script_path, script_args, env, outputs).                               *)
(***************************************************************************)
EXTENDS Integers, Sequences, FiniteSets, TLC

VARIABLES
    \* ---- the TracerPythonScript instance
    obj,            \* "unconstructed" | "ready" | "error" (__init__ raised)
    initialized,    \* names of the instance attributes that have been set
    script_path, script_args, env, outputs,
    out_attrs,      \* the per-output attributes: name -> value
    \* ---- process-wide state touched by run()
    module_globals, \* globals() of the tracer module
    os_environ,     \* the mapping bound to the name os.environ
    environ_kind,   \* "_Environ" (writes reach putenv) | "dict" (a plain copy)
    proc_environ,   \* the environment of the process itself (putenv/unsetenv)
    sys_argv,
    \* ---- one call of run(): position and locals
    pc,
    kwargs,         \* the keyword arguments after unwrapping (line 108)
    init_globals, env_copy, res,
    outcome,        \* "none" | "running" | "ok" | "engine_error" | "after_error"
    \* ---- history of the current / last call
    trace,          \* steps of run() taken so far in this call, in order
    ctor_path,      \* script_path argument given to __init__
    passed,         \* the keyword arguments as the caller passed them
    attrs_pre,      \* out_attrs when the call began
    globals_pre,    \* module_globals when the call began
    supplied,       \* name -> underlying value of the latest run() that passed it
    supplied_failed,\* names whose latest supplying run() raised
    good_res,       \* result mapping of the latest successful run()
    proc_pre,       \* proc_environ when env_copy was taken
    script_written, \* environment variables the script changed in this call
    \* ---- descendant processes and on_exit()
    pstate,         \* pid -> "unborn" | "running" | "zombie" | "gone"
    parent,         \* pid -> parent pid
    exit_pc,        \* "none" | "killing" | "done" | "raised"
    child_pids,     \* pids on_exit still has to signal
    enumerated,     \* pids _collect_child_process_pids returned
    kill_calls,     \* pid -> number of os.kill(pid, SIGTERM) calls
    \* ---- RunIf
    kw, sys, mark

runner_vars == <<obj, initialized, script_path, script_args, env, outputs, out_attrs,
                 module_globals, os_environ, environ_kind, proc_environ, sys_argv,
                 pc, kwargs, init_globals, env_copy, res, outcome,
                 trace, ctor_path, passed, attrs_pre, globals_pre, supplied, good_res,
                 proc_pre, script_written, supplied_failed>>
proc_vars == <<pstate, parent, exit_pc, child_pids, enumerated, kill_calls>>
runif_vars == <<kw, sys, mark>>
vars == <<runner_vars, proc_vars, runif_vars>>

----------------------------------------------------------------------------
\* Bounds of the model.
MaxOutputs == 2
MaxVal == 2
MaxProcs == 3
MaxRequested == 2
MaxDeviations == 1

----------------------------------------------------------------------------
\* Dict helpers.
EmptyMap == [k \in {} |-> 0]

MapUpdate(f, g) ==
    [k \in (DOMAIN f) \cup (DOMAIN g) |-> IF k \in DOMAIN g THEN g[k] ELSE f[k]]

MapRemove(f, k) == [j \in (DOMAIN f) \ {k} |-> f[j]]

Range(s) == {s[i] : i \in DOMAIN s}

RECURSIVE SeqsUpTo(_, _)
SeqsUpTo(S, n) ==
    IF n = 0 THEN {<<>>}
    ELSE LET P == SeqsUpTo(S, n - 1) IN P \cup {Append(p, x) : p \in P, x \in S}

MapsOver(K, V) == UNION {[D -> V] : D \in SUBSET K}

IsPrefix(s, t) == Len(s) <= Len(t) /\ \A i \in 1..Len(s) : s[i] = t[i]

----------------------------------------------------------------------------
\* Python values and the Payload envelope.
Plain(v) == [wrap |-> 0, val |-> v]
None == Plain(0)
Payload(x) == [wrap |-> x.wrap + 1, val |-> x.val]
IsPayload(x) == x.wrap > 0
PayloadValue(x) == [wrap |-> x.wrap - 1, val |-> x.val]

ScriptValues == {Plain(v) : v \in 1..MaxVal}

----------------------------------------------------------------------------
\* The file system seen by os.path.exists.
PathKind(p) ==
    CASE p = "a.py" -> "file"
      [] p = "scripts" -> "dir"
      [] OTHER -> "missing"

PathExistsAlways(p) == TRUE

PathExists(p) == PathKind(p) # "missing"

Paths == {"a.py", "scripts", "missing.py"}

\* script_args as given: None, a str (a sequence of characters) or a list.
NoArgs == [kind |-> "none", str |-> <<>>, list |-> <<>>]
StrArgs(s) == [kind |-> "str", str |-> s, list |-> <<>>]
ListArgs(l) == [kind |-> "list", str |-> <<>>, list |-> l]

RECURSIVE SplitSpace(_)
SplitSpace(s) ==
    IF \A i \in 1..Len(s) : s[i] # " " THEN <<s>>
    ELSE LET i == CHOOSE i \in 1..Len(s) : s[i] = " " /\ \A j \in 1..(i - 1) : s[j] # " "
         IN <<SubSeq(s, 1, i - 1)>> \o SplitSpace(SubSeq(s, i + 1, Len(s)))

ScriptArgs(a) ==
    LET l == IF a.kind = "str" THEN SplitSpace(a.str) ELSE a.list
    IN IF a.kind # "none" /\ l # <<>> THEN l ELSE <<>>

\* env as given: None or a dict.
NoEnv == [none |-> TRUE, map |-> EmptyMap]
EnvDict(m) == [none |-> FALSE, map |-> m]
Truthy(e) == ~e.none /\ DOMAIN e.map # {}

InitOutputs(outs) == [n \in Range(outs) |-> None]

ConfigAttrs == {"script_path", "script_args", "env", "outputs"}

----------------------------------------------------------------------------
\* Initial state: no instance yet, a fresh interpreter.
OutNames == {"x", "y"}
EnvVars == {"A", "B"}
InitialEnviron == [k \in {"A"} |-> "0"]
InitialGlobals == [k \in {"logger"} |-> None]
KwNames == {"logger", "p"}
Pids == 1..MaxProcs

RunnerInit ==
    /\ obj = "unconstructed"
    /\ initialized = {}
    /\ script_path = ""
    /\ script_args = <<>>
    /\ env = NoEnv
    /\ outputs = <<>>
    /\ out_attrs = EmptyMap
    /\ module_globals = InitialGlobals
    /\ os_environ = InitialEnviron
    /\ environ_kind = "_Environ"
    /\ proc_environ = InitialEnviron
    /\ sys_argv = <<>>
    /\ pc = "idle"
    /\ kwargs = EmptyMap
    /\ init_globals = EmptyMap
    /\ env_copy = EmptyMap
    /\ res = EmptyMap
    /\ outcome = "none"
    /\ trace = <<>>
    /\ ctor_path = ""
    /\ passed = EmptyMap
    /\ attrs_pre = EmptyMap
    /\ globals_pre = EmptyMap
    /\ supplied = EmptyMap
    /\ supplied_failed = {}
    /\ good_res = EmptyMap
    /\ proc_pre = EmptyMap
    /\ script_written = {}

ProcInit ==
    /\ pstate = [p \in Pids |-> "unborn"]
    /\ parent = [p \in Pids |-> MaxProcs + 1]
    /\ exit_pc = "none"
    /\ child_pids = <<>>
    /\ enumerated = {}
    /\ kill_calls = [p \in Pids |-> 0]

RunIfIdle ==
    /\ kw = EmptyMap
    /\ sys = EmptyMap
    /\ mark = [state |-> "none", condition |-> FALSE, reason |-> <<>>, kwargs |-> {}]

Init == RunnerInit /\ ProcInit /\ RunIfIdle

----------------------------------------------------------------------------
\* TracerPythonScript.__init__.  super().__init__ (line 95) sets up the
\* LightningWork base and none of the attributes below.
Construct(paths, argss, outss, envs) ==
    /\ obj = "unconstructed"
    /\ \E p \in paths, a \in argss, o \in outss, e \in envs :
        /\ ctor_path' = p
        /\ IF ~PathExists(p)
           THEN /\ obj' = "error"
                /\ UNCHANGED <<initialized, script_path, script_args, env, outputs, out_attrs>>
           ELSE /\ obj' = "ready"
                /\ script_path' = p
                /\ script_args' = ScriptArgs(a)
                /\ env' = e
                /\ outputs' = o
                /\ out_attrs' = InitOutputs(o)
                /\ initialized' = ConfigAttrs \cup Range(o)
    /\ UNCHANGED <<module_globals, os_environ, environ_kind, proc_environ, sys_argv,
                   pc, kwargs, init_globals, env_copy, res, outcome, trace,
                   passed, attrs_pre, globals_pre, supplied, supplied_failed, good_res, proc_pre, script_written>>
    /\ UNCHANGED <<proc_vars, runif_vars>>

----------------------------------------------------------------------------
\* TracerPythonScript.run, one action per statement group; the order of the
\* statements is StepAfter.
StepAfterHookLast(step) ==
    CASE step = "idle" -> "on_before_run"
      [] step = "on_before_run" -> "overlay"
      [] step = "overlay" -> "run_tracer"
      [] step = "run_tracer" -> "trace"
      [] step = "trace" -> "on_after_run"
      [] step = "on_after_run" -> "restore"
      [] OTHER -> "idle"

StepAfter(step) ==
    CASE step = "idle" -> "on_before_run"
      [] step = "on_before_run" -> "overlay"
      [] step = "overlay" -> "run_tracer"
      [] step = "run_tracer" -> "trace"
      [] step = "trace" -> "restore"
      [] step = "restore" -> "on_after_run"
      [] OTHER -> "idle"

\* line 108: {k: v.value if isinstance(v, Payload) else v ...}
UnwrapNothing(k) == k

UnwrapKwargs(k) ==
    [n \in DOMAIN k |-> IF IsPayload(k[n]) THEN PayloadValue(k[n]) ELSE k[n]]

\* lines 109-110: init_globals IS the module's globals() dict, so update()
\* changes the module-level bindings.
GlobalsOfCopy(g, u) == g

GlobalsAfterUpdate(g, u) == MapUpdate(g, u)

\* line 114: os.environ.update(self.env)
EnvironUpdate(e, m) == MapUpdate(e, m)

\* lines 115-116: an exception raised at line 115 leaves run() before line 116
\* is reached, so os.environ stays what it was when the engine raised.
EnvironRestoredOnRaise(cur, copy) == copy

EnvironAfterRaise(cur, copy) == cur

\* on_after_run: for name in self.outputs: setattr(self, name, Payload(res[name]))
RECURSIVE AfterRunRaw(_, _, _)
AfterRunRaw(attrs, outs, r) ==
    IF outs = <<>> THEN [attrs |-> attrs, raised |-> FALSE]
    ELSE LET n == Head(outs)
         IN IF n \notin DOMAIN r THEN [attrs |-> attrs, raised |-> TRUE]
            ELSE AfterRunRaw(MapUpdate(attrs, [x \in {n} |-> r[n]]), Tail(outs), r)

RECURSIVE AfterRun(_, _, _)
AfterRun(attrs, outs, r) ==
    IF outs = <<>> THEN [attrs |-> attrs, raised |-> FALSE]
    ELSE LET n == Head(outs)
         IN IF n \notin DOMAIN r THEN [attrs |-> attrs, raised |-> TRUE]
            ELSE AfterRun(MapUpdate(attrs, [x \in {n} |-> Payload(r[n])]), Tail(outs), r)

Run(kwset) ==
    /\ obj = "ready" /\ pc = "idle" /\ exit_pc = "none"
    /\ \E k \in kwset :
        LET u == UnwrapKwargs(k) IN
        /\ passed' = k
        /\ kwargs' = u
        /\ init_globals' = MapUpdate(module_globals, u)
        /\ module_globals' = GlobalsAfterUpdate(module_globals, u)
        /\ supplied' = [n \in (DOMAIN supplied) \cup (DOMAIN k) |->
                          IF n \in DOMAIN k
                          THEN [wrap |-> IF k[n].wrap > 0 THEN k[n].wrap - 1 ELSE 0,
                                val |-> k[n].val]
                          ELSE supplied[n]]
        /\ supplied_failed' = supplied_failed \ DOMAIN k
    /\ globals_pre' = module_globals
    /\ attrs_pre' = out_attrs
    /\ env_copy' = EmptyMap
    /\ proc_pre' = EmptyMap
    /\ res' = EmptyMap
    /\ script_written' = {}
    /\ outcome' = "running"
    /\ trace' = <<"context">>
    /\ pc' = StepAfter("idle")
    /\ UNCHANGED <<obj, initialized, script_path, script_args, env, outputs, out_attrs,
                   os_environ, environ_kind, proc_environ, sys_argv, ctor_path, good_res>>
    /\ UNCHANGED <<proc_vars, runif_vars>>

\* line 111; the default hook does nothing.
OnBeforeRun ==
    /\ pc = "on_before_run"
    /\ trace' = Append(trace, "beforeRun")
    /\ pc' = StepAfter("on_before_run")
    /\ UNCHANGED <<obj, initialized, script_path, script_args, env, outputs, out_attrs,
                   module_globals, os_environ, environ_kind, proc_environ, sys_argv,
                   kwargs, init_globals, env_copy, res, outcome, ctor_path, passed,
                   attrs_pre, globals_pre, supplied, supplied_failed, good_res, proc_pre, script_written>>
    /\ UNCHANGED <<proc_vars, runif_vars>>

\* lines 112-114
Overlay ==
    /\ pc = "overlay"
    /\ env_copy' = os_environ
    /\ proc_pre' = proc_environ
    /\ IF Truthy(env)
       THEN /\ os_environ' = EnvironUpdate(os_environ, env.map)
            /\ proc_environ' = IF environ_kind = "_Environ"
                               THEN EnvironUpdate(proc_environ, env.map)
                               ELSE proc_environ
       ELSE UNCHANGED <<os_environ, proc_environ>>
    /\ trace' = Append(trace, "overlay")
    /\ pc' = StepAfter("overlay")
    /\ UNCHANGED <<obj, initialized, script_path, script_args, env, outputs, out_attrs,
                   module_globals, environ_kind, sys_argv,
                   kwargs, init_globals, res, outcome, ctor_path, passed,
                   attrs_pre, globals_pre, supplied, supplied_failed, good_res, script_written>>
    /\ UNCHANGED <<proc_vars, runif_vars>>

\* lines 115, 120-122: _run_tracer starts the script
RunTracerBegin ==
    /\ pc = "run_tracer"
    /\ sys_argv' = <<script_path>>
    /\ trace' = Append(trace, "engine")
    /\ pc' = StepAfter("run_tracer")
    /\ UNCHANGED <<obj, initialized, script_path, script_args, env, outputs, out_attrs,
                   module_globals, os_environ, environ_kind, proc_environ,
                   kwargs, init_globals, env_copy, res, outcome, ctor_path, passed,
                   attrs_pre, globals_pre, supplied, supplied_failed, good_res, proc_pre, script_written>>
    /\ UNCHANGED <<proc_vars, runif_vars>>

\* The script, while it runs, assigns or deletes an entry of os.environ.
ScriptEnvValue == "2"

ScriptSetenv ==
    /\ pc = "trace"
    /\ \E k \in EnvVars :
        /\ os_environ' = MapUpdate(os_environ, [x \in {k} |-> ScriptEnvValue])
        /\ proc_environ' = IF environ_kind = "_Environ"
                           THEN MapUpdate(proc_environ, [x \in {k} |-> ScriptEnvValue])
                           ELSE proc_environ
        /\ script_written' = script_written \cup {k}
    /\ UNCHANGED <<obj, initialized, script_path, script_args, env, outputs, out_attrs,
                   module_globals, environ_kind, sys_argv, pc,
                   kwargs, init_globals, env_copy, res, outcome, trace, ctor_path, passed,
                   attrs_pre, globals_pre, supplied, supplied_failed, good_res, proc_pre>>
    /\ UNCHANGED <<proc_vars, runif_vars>>

ScriptUnsetenv ==
    /\ pc = "trace"
    /\ \E k \in DOMAIN os_environ :
        /\ os_environ' = MapRemove(os_environ, k)
        /\ proc_environ' = IF environ_kind = "_Environ"
                           THEN MapRemove(proc_environ, k)
                           ELSE proc_environ
        /\ script_written' = script_written \cup {k}
    /\ UNCHANGED <<obj, initialized, script_path, script_args, env, outputs, out_attrs,
                   module_globals, environ_kind, sys_argv, pc,
                   kwargs, init_globals, env_copy, res, outcome, trace, ctor_path, passed,
                   attrs_pre, globals_pre, supplied, supplied_failed, good_res, proc_pre>>
    /\ UNCHANGED <<proc_vars, runif_vars>>

\* line 115: the engine returns the script's namespace ...
TraceReturn(resset) ==
    /\ pc = "trace"
    /\ \E r \in resset : res' = r
    /\ pc' = StepAfter("trace")
    /\ UNCHANGED <<obj, initialized, script_path, script_args, env, outputs, out_attrs,
                   module_globals, os_environ, environ_kind, proc_environ, sys_argv,
                   kwargs, init_globals, env_copy, outcome, trace, ctor_path, passed,
                   attrs_pre, globals_pre, supplied, supplied_failed, good_res, proc_pre, script_written>>
    /\ UNCHANGED <<proc_vars, runif_vars>>

\* ... or raises, and run() is left at line 115.
TraceRaise ==
    /\ pc = "trace"
    /\ outcome' = "engine_error"
    /\ pc' = "idle"
    /\ os_environ' = EnvironAfterRaise(os_environ, env_copy)
    /\ supplied_failed' = supplied_failed \cup DOMAIN passed
    /\ UNCHANGED <<obj, initialized, script_path, script_args, env, outputs, out_attrs,
                   module_globals, environ_kind, proc_environ, sys_argv,
                   kwargs, init_globals, env_copy, res, trace, ctor_path, passed,
                   attrs_pre, globals_pre, supplied, good_res, proc_pre, script_written>>
    /\ UNCHANGED <<proc_vars, runif_vars>>

\* line 116: os.environ = env_copy rebinds the name to the plain dict copy.
Restore ==
    /\ pc = "restore"
    /\ os_environ' = env_copy
    /\ environ_kind' = "dict"
    /\ trace' = Append(trace, "restore")
    /\ pc' = StepAfter("restore")
    /\ UNCHANGED <<obj, initialized, script_path, script_args, env, outputs, out_attrs,
                   module_globals, proc_environ, sys_argv,
                   kwargs, init_globals, env_copy, res, outcome, ctor_path, passed,
                   attrs_pre, globals_pre, supplied, supplied_failed, good_res, proc_pre, script_written>>
    /\ UNCHANGED <<proc_vars, runif_vars>>

\* line 117 and on_after_run
OnAfterRun ==
    /\ pc = "on_after_run"
    /\ trace' = Append(trace, "afterRun")
    /\ LET r == AfterRun(out_attrs, outputs, res) IN
        /\ out_attrs' = r.attrs
        /\ IF r.raised
           THEN /\ outcome' = "after_error"
                /\ supplied_failed' = supplied_failed \cup DOMAIN passed
                /\ pc' = "idle"
                /\ UNCHANGED good_res
           ELSE /\ outcome' = "ok"
                /\ UNCHANGED supplied_failed
                /\ pc' = StepAfter("on_after_run")
                /\ good_res' = res
    /\ UNCHANGED <<obj, initialized, script_path, script_args, env, outputs,
                   module_globals, os_environ, environ_kind, proc_environ, sys_argv,
                   kwargs, init_globals, env_copy, res, ctor_path, passed,
                   attrs_pre, globals_pre, supplied, proc_pre, script_written>>
    /\ UNCHANGED <<proc_vars, runif_vars>>

----------------------------------------------------------------------------
\* Inputs.
ArgChoices == {NoArgs, StrArgs(<<>>), StrArgs(<<"a", " ", "b">>), ListArgs(<<<<"a">>>>)}
OutputChoices == SeqsUpTo(OutNames, MaxOutputs)
ResChoices == MapsOver(OutNames, ScriptValues)
EnvChoices == {NoEnv} \cup {EnvDict(m) : m \in MapsOver(EnvVars, {"1"})}
KwValues == {Plain(1), Plain(2), Payload(Plain(1)), Payload(Payload(Plain(2)))}
KwChoices == MapsOver(KwNames, KwValues)
KwFew == {EmptyMap, [k \in {"p"} |-> Payload(Plain(1))]}

\* Outputs: construction and the copying of outputs.
Next ==
    \/ Construct(Paths, ArgChoices, OutputChoices, {NoEnv})
    \/ Run({EmptyMap})
    \/ OnBeforeRun
    \/ Overlay
    \/ RunTracerBegin
    \/ TraceReturn(ResChoices)
    \/ TraceRaise
    \/ Restore
    \/ OnAfterRun

Spec == Init /\ [][Next]_vars

\* Environment: the overlay, the script's own changes, the restore.
NextEnv ==
    \/ Construct({"a.py"}, {NoArgs}, {<<>>}, EnvChoices)
    \/ Run(KwFew)
    \/ OnBeforeRun
    \/ Overlay
    \/ RunTracerBegin
    \/ ScriptSetenv
    \/ ScriptUnsetenv
    \/ TraceReturn({EmptyMap})
    \/ TraceRaise
    \/ Restore
    \/ OnAfterRun

SpecEnv == Init /\ [][NextEnv]_vars

\* Execution context: keyword arguments and module-level bindings.
NextCtx ==
    \/ Construct({"a.py"}, {NoArgs}, {<<>>}, {NoEnv})
    \/ Run(KwChoices)
    \/ OnBeforeRun
    \/ Overlay
    \/ RunTracerBegin
    \/ TraceReturn({EmptyMap})
    \/ TraceRaise
    \/ Restore
    \/ OnAfterRun

SpecCtx == Init /\ [][NextCtx]_vars

----------------------------------------------------------------------------
\* Descendant processes and TracerPythonScript.on_exit.
SelfPid == 0
OtherPid == MaxProcs + 1

RECURSIVE IsDescendant(_, _)
IsDescendant(p, n) ==
    \/ parent[p] = SelfPid
    \/ n > 0 /\ parent[p] \in Pids /\ IsDescendant(parent[p], n - 1)

\* _collect_child_process_pids(os.getpid()): the pids of the transitive
\* descendants still in the process table, in ascending order.
Descendants == {p \in Pids : pstate[p] \in {"running", "zombie"} /\ IsDescendant(p, MaxProcs)}

RECURSIVE SortedSeq(_)
SortedSeq(S) ==
    IF S = {} THEN <<>>
    ELSE LET m == CHOOSE x \in S : \A y \in S : x <= y IN <<m>> \o SortedSeq(S \ {m})

\* A process is started: by the script while the engine runs it, by a
\* running descendant, or by a process unrelated to this one.
Spawn ==
    /\ exit_pc \in {"none", "killing"}
    /\ \E c \in Pids, p \in Pids \cup {SelfPid, OtherPid} :
        /\ pstate[c] = "unborn"
        /\ \A d \in Pids : d < c => pstate[d] # "unborn"
        /\ p = SelfPid => pc = "trace"
        /\ p \in Pids => pstate[p] = "running"
        /\ pstate' = [pstate EXCEPT ![c] = "running"]
        /\ parent' = [parent EXCEPT ![c] = p]
    /\ UNCHANGED <<exit_pc, child_pids, enumerated, kill_calls>>
    /\ UNCHANGED <<runner_vars, runif_vars>>

\* A process exits: it stays in the process table until it is reaped, and
\* its children are handed to init.
ProcExit ==
    /\ exit_pc \in {"none", "killing"}
    /\ \E p \in Pids :
        /\ pstate[p] = "running"
        /\ pstate' = [pstate EXCEPT ![p] = "zombie"]
        /\ parent' = [c \in Pids |-> IF parent[c] = p THEN OtherPid ELSE parent[c]]
    /\ UNCHANGED <<exit_pc, child_pids, enumerated, kill_calls>>
    /\ UNCHANGED <<runner_vars, runif_vars>>

\* An exited process is reaped by its parent: its pid no longer exists.  A
\* child of this process is reaped only by the script, while the engine runs it.
ProcReap ==
    /\ exit_pc \in {"none", "killing"}
    /\ \E p \in Pids :
        /\ pstate[p] = "zombie"
        /\ parent[p] = SelfPid => pc = "trace"
        /\ pstate' = [pstate EXCEPT ![p] = "gone"]
    /\ UNCHANGED <<parent, exit_pc, child_pids, enumerated, kill_calls>>
    /\ UNCHANGED <<runner_vars, runif_vars>>

\* line 125: the list the for loop iterates over
OnExit ==
    /\ obj = "ready" /\ pc = "idle" /\ exit_pc = "none"
    /\ enumerated' = Descendants
    /\ child_pids' = SortedSeq(Descendants)
    /\ exit_pc' = IF Descendants = {} THEN "done" ELSE "killing"
    /\ UNCHANGED <<pstate, parent, kill_calls>>
    /\ UNCHANGED <<runner_vars, runif_vars>>

\* line 126: os.kill(child_pid, signal.SIGTERM) raises ProcessLookupError
\* when no process has that pid, which ends on_exit.
OnExitKill ==
    /\ exit_pc = "killing"
    /\ LET p == Head(child_pids) IN
        /\ kill_calls' = [kill_calls EXCEPT ![p] = @ + 1]
        /\ IF pstate[p] = "gone"
           THEN /\ exit_pc' = "raised"
                /\ UNCHANGED child_pids
           ELSE /\ child_pids' = Tail(child_pids)
                /\ exit_pc' = IF Tail(child_pids) = <<>> THEN "done" ELSE "killing"
    /\ UNCHANGED <<pstate, parent, enumerated>>
    /\ UNCHANGED <<runner_vars, runif_vars>>

NextExit ==
    \/ Construct({"a.py"}, {NoArgs}, {<<>>}, {NoEnv})
    \/ Run({EmptyMap})
    \/ OnBeforeRun
    \/ Overlay
    \/ RunTracerBegin
    \/ TraceReturn({EmptyMap})
    \/ TraceRaise
    \/ Restore
    \/ OnAfterRun
    \/ Spawn
    \/ ProcExit
    \/ ProcReap
    \/ OnExit
    \/ OnExitKill

SpecExit == Init /\ [][NextExit]_vars

\* C7: on_exit calls os.kill(pid, SIGTERM) exactly once for every process
\* that was a descendant when on_exit enumerated them, also when some of them
\* have exited in the meantime, and for no other process.
TeardownSignalsEachOnce ==
    exit_pc \in {"done", "raised"} =>
        \A p \in Pids : kill_calls[p] = IF p \in enumerated THEN 1 ELSE 0

----------------------------------------------------------------------------
\* RunIf.__new__ (tests_pytorch/helpers/runif.py).  A version is a number
\* compared as packaging's Version compares; a reason is [text, arg].
NoVersion == [given |-> FALSE, v |-> 0]
Ver(n) == [given |-> TRUE, v |-> n]
R(text) == [text |-> text, arg |-> 0]
RN(text, n) == [text |-> text, arg |-> n]

KwDefault ==
    [min_cuda_gpus |-> 0, min_torch |-> NoVersion, max_torch |-> NoVersion,
     min_python |-> NoVersion, quantization |-> FALSE, amp_apex |-> FALSE,
     bf16_cuda |-> FALSE, tpu |-> FALSE, ipu |-> FALSE, hpu |-> FALSE, mps |-> "None",
     horovod |-> FALSE, horovod_nccl |-> FALSE, skip_windows |-> FALSE,
     standalone |-> FALSE, fairscale |-> FALSE, fairscale_fully_sharded |-> FALSE,
     deepspeed |-> FALSE, rich |-> FALSE, omegaconf |-> FALSE, slow |-> FALSE,
     bagua |-> FALSE, psutil |-> FALSE, hivemind |-> FALSE]

BoolParams ==
    {"quantization", "amp_apex", "bf16_cuda", "tpu", "ipu", "hpu", "horovod",
     "horovod_nccl", "skip_windows", "standalone", "fairscale",
     "fairscale_fully_sharded", "deepspeed", "rich", "omegaconf", "slow", "bagua",
     "psutil", "hivemind"}

KwDeviations ==
    {[f \in {"min_cuda_gpus"} |-> n] : n \in {1, 2}}
    \cup {[f \in {q} |-> Ver(n)] : q \in {"min_torch", "max_torch", "min_python"}, n \in {0, 1, 2}}
    \cup {[f \in {q} |-> TRUE] : q \in BoolParams}
    \cup {[f \in {"mps"} |-> m] : m \in {"True", "False"}}

\* The machine the decorator is evaluated on.
SysDefault ==
    [device_count |-> 1, torch_version |-> 1, python_version |-> 1,
     platform |-> "linux", quantize |-> TRUE, fbgemm |-> TRUE, apex |-> TRUE,
     cuda_available |-> TRUE, torch_ge_1_10 |-> TRUE, bf16_supported |-> TRUE,
     cuda_error |-> "none", tpu |-> TRUE, ipu |-> TRUE, hpu |-> TRUE, mps |-> TRUE,
     horovod |-> TRUE, nccl_built |-> TRUE, fairscale |-> TRUE,
     fairscale_fully_sharded |-> TRUE, deepspeed |-> TRUE, rich |-> TRUE,
     omegaconf |-> TRUE, bagua |-> TRUE, psutil |-> TRUE, hivemind |-> TRUE,
     PL_RUN_IPU_TESTS |-> "1", PL_RUN_STANDALONE_TESTS |-> "1", PL_RUN_SLOW_TESTS |-> "1"]

BoolFlags ==
    {"quantize", "fbgemm", "apex", "cuda_available", "torch_ge_1_10", "bf16_supported",
     "tpu", "ipu", "hpu", "mps", "horovod", "nccl_built", "fairscale",
     "fairscale_fully_sharded", "deepspeed", "rich", "omegaconf", "bagua", "psutil",
     "hivemind"}

SysDeviations ==
    {[f \in {q} |-> n] : q \in {"device_count", "torch_version", "python_version"}, n \in {0, 2}}
    \cup {[f \in {"platform"} |-> x] : x \in {"win32", "darwin"}}
    \cup {[f \in {q} |-> FALSE] : q \in BoolFlags}
    \cup {[f \in {"cuda_error"} |-> x] : x \in {"no_driver", "not_compiled", "both", "other"}}
    \cup {[f \in {q} |-> "0"] :
            q \in {"PL_RUN_IPU_TESTS", "PL_RUN_STANDALONE_TESTS", "PL_RUN_SLOW_TESTS"}}

RECURSIVE Deviating(_, _, _)
Deviating(base, devs, n) ==
    IF n = 0 THEN {base}
    ELSE LET P == Deviating(base, devs, n - 1)
         IN P \cup {MapUpdate(b, d) : b \in P, d \in devs}

RunIfInputs ==
    /\ kw \in Deviating(KwDefault, KwDeviations, MaxRequested)
    /\ sys \in Deviating(SysDefault, SysDeviations, MaxDeviations)
    /\ mark = [state |-> "none", condition |-> FALSE, reason |-> <<>>, kwargs |-> {}]

InitRunIf == RunnerInit /\ ProcInit /\ RunIfInputs

\* lines 42-53
HorovodNcclAvailable(s) == s.horovod /\ s.nccl_built

\* lines 156-164.  The message of the exception the CUDA probe raises:
\* "no_driver" holds "Found no NVIDIA driver", "not_compiled" holds "Torch not
\* compiled with CUDA", "both" holds both and "other" neither.
HasDriverMsg(e) == e \in {"no_driver", "both"}
HasCompiledMsg(e) == e \in {"not_compiled", "both"}
IsUnrelated(e) == ~HasDriverMsg(e) \/ ~HasCompiledMsg(e)
Bf16Raises(s) == s.cuda_error # "none" /\ IsUnrelated(s.cuda_error)
Bf16Cond(s) ==
    IF s.cuda_error = "none"
    THEN ~(s.cuda_available /\ s.torch_ge_1_10 /\ s.bf16_supported)
    ELSE TRUE

If(c, x) == IF c THEN <<x>> ELSE <<>>

\* lines 124-247: the conditions list
Conditions(k, s) ==
    If(k.min_cuda_gpus # 0, s.device_count < k.min_cuda_gpus)
    \o If(k.min_torch.given, s.torch_version < k.min_torch.v)
    \o If(k.max_torch.given, s.torch_version >= k.max_torch.v)
    \o If(k.min_python.given, s.python_version < k.min_python.v)
    \o If(k.quantization, ~s.quantize \/ ~s.fbgemm)
    \o If(k.amp_apex, ~s.apex)
    \o If(k.bf16_cuda, Bf16Cond(s))
    \o If(k.skip_windows, s.platform = "win32")
    \o If(k.tpu, ~s.tpu)
    \o If(k.ipu, s.PL_RUN_IPU_TESTS # "1" \/ ~s.ipu)
    \o If(k.hpu, ~s.hpu)
    \o If(k.mps # "None", IF k.mps = "True" THEN ~s.mps ELSE s.mps)
    \o If(k.horovod, ~s.horovod)
    \o If(k.horovod_nccl, ~HorovodNcclAvailable(s))
    \o If(k.standalone, s.PL_RUN_STANDALONE_TESTS # "1")
    \o If(k.fairscale, ~s.fairscale)
    \o If(k.fairscale_fully_sharded, ~s.fairscale_fully_sharded)
    \o If(k.deepspeed, ~s.deepspeed)
    \o If(k.rich, ~s.rich)
    \o If(k.omegaconf, ~s.omegaconf)
    \o If(k.slow, s.PL_RUN_SLOW_TESTS # "1")
    \o If(k.bagua, ~s.bagua \/ s.platform \in {"win32", "darwin"})
    \o If(k.psutil, ~s.psutil)
    \o If(k.hivemind, ~s.hivemind \/ s.platform \in {"win32", "darwin"})

\* lines 124-247: the reasons list
Reasons(k) ==
    If(k.min_cuda_gpus # 0, RN("GPUs>=", k.min_cuda_gpus))
    \o If(k.min_torch.given, RN("torch>=", k.min_torch.v))
    \o If(k.max_torch.given, RN("torch<", k.max_torch.v))
    \o If(k.min_python.given, RN("python>=", k.min_python.v))
    \o If(k.quantization, R("PyTorch quantization"))
    \o If(k.amp_apex, R("NVIDIA Apex"))
    \o If(k.bf16_cuda, R("CUDA device bf16"))
    \o If(k.skip_windows, R("unimplemented on Windows"))
    \o If(k.tpu, R("TPU"))
    \o If(k.ipu, R("IPU"))
    \o If(k.hpu, R("HPU"))
    \o If(k.mps # "None", IF k.mps = "True" THEN R("MPS") ELSE R("not MPS"))
    \o If(k.horovod, R("Horovod"))
    \o If(k.horovod_nccl, R("Horovod with NCCL"))
    \o If(k.standalone, R("Standalone execution"))
    \o If(k.fairscale, R("Fairscale"))
    \o If(k.fairscale_fully_sharded, R("Fairscale Fully Sharded"))
    \o If(k.deepspeed, R("Deepspeed"))
    \o If(k.rich, R("Rich"))
    \o If(k.omegaconf, R("omegaconf"))
    \o If(k.slow, R("Slow test"))
    \o If(k.bagua, R("Bagua"))
    \o If(k.psutil, R("psutil"))
    \o If(k.hivemind, R("Hivemind"))

\* lines 181, 208, 235: keywords handed on to pytest.mark.skipif
MarkKwargs(k) ==
    {n \in {"ipu", "standalone", "slow"} :
        \/ n = "ipu" /\ k.ipu
        \/ n = "standalone" /\ k.standalone
        \/ n = "slow" /\ k.slow}

\* line 249: [rs for cond, rs in zip(conditions, reasons) if cond]
RECURSIVE ZipFilter(_, _)
ZipFilter(cs, rs) ==
    IF cs = <<>> \/ rs = <<>> THEN <<>>
    ELSE (IF Head(cs) THEN <<Head(rs)>> ELSE <<>>) \o ZipFilter(Tail(cs), Tail(rs))

\* ' + '.join(reasons)
RECURSIVE Join(_, _)
Join(rs, sep) ==
    IF rs = <<>> THEN <<>>
    ELSE IF Len(rs) = 1 THEN rs
    ELSE <<Head(rs), sep>> \o Join(Tail(rs), sep)

\* line 251: f"Requires: [{' + '.join(reasons)}]"
Reason(rs) == <<R("Requires: [")>> \o Join(rs, R(" + ")) \o <<R("]")>>

AnyTrue(cs) == \E i \in DOMAIN cs : cs[i]

RunIfNew ==
    /\ mark.state = "none"
    /\ mark' = IF kw.bf16_cuda /\ Bf16Raises(sys)
               THEN [mark EXCEPT !.state = "raised"]
               ELSE [state |-> "marked",
                     condition |-> AnyTrue(Conditions(kw, sys)),
                     reason |-> Reason(ZipFilter(Conditions(kw, sys), Reasons(kw))),
                     kwargs |-> MarkKwargs(kw)]
    /\ UNCHANGED <<kw, sys>>
    /\ UNCHANGED <<runner_vars, proc_vars>>

NextRunIf == RunIfNew

SpecRunIf == InitRunIf /\ [][NextRunIf]_vars

\* The requirements in the order RunIf evaluates them, and what the
\* docstring of RunIf (lines 94-123) says each one asks of the machine.
Requirements ==
    <<"min_cuda_gpus", "min_torch", "max_torch", "min_python", "quantization",
      "amp_apex", "bf16_cuda", "skip_windows", "tpu", "ipu", "hpu", "mps", "horovod",
      "horovod_nccl", "standalone", "fairscale", "fairscale_fully_sharded",
      "deepspeed", "rich", "omegaconf", "slow", "bagua", "psutil", "hivemind">>

Requested(r) ==
    CASE r = "min_cuda_gpus" -> kw.min_cuda_gpus > 0
      [] r \in {"min_torch", "max_torch", "min_python"} -> kw[r].given
      [] r = "mps" -> kw.mps # "None"
      [] OTHER -> kw[r]

Met(r) ==
    CASE r = "min_cuda_gpus" -> sys.device_count >= kw.min_cuda_gpus
      [] r = "min_torch" -> sys.torch_version >= kw.min_torch.v
      [] r = "max_torch" -> sys.torch_version < kw.max_torch.v
      [] r = "min_python" -> sys.python_version >= kw.min_python.v
      [] r = "quantization" -> sys.quantize /\ sys.fbgemm
      [] r = "amp_apex" -> sys.apex
      [] r = "bf16_cuda" -> /\ sys.cuda_error = "none"
                            /\ sys.cuda_available /\ sys.torch_ge_1_10 /\ sys.bf16_supported
      [] r = "skip_windows" -> sys.platform # "win32"
      [] r = "ipu" -> sys.ipu /\ sys.PL_RUN_IPU_TESTS = "1"
      [] r = "mps" -> (kw.mps = "True") = sys.mps
      [] r = "horovod_nccl" -> sys.horovod /\ sys.nccl_built
      [] r = "standalone" -> sys.PL_RUN_STANDALONE_TESTS = "1"
      [] r = "slow" -> sys.PL_RUN_SLOW_TESTS = "1"
      [] r \in {"bagua", "hivemind"} -> sys[r] /\ sys.platform = "linux"
      [] OTHER -> sys[r]

Label(r) ==
    CASE r = "min_cuda_gpus" -> RN("GPUs>=", kw.min_cuda_gpus)
      [] r = "min_torch" -> RN("torch>=", kw.min_torch.v)
      [] r = "max_torch" -> RN("torch<", kw.max_torch.v)
      [] r = "min_python" -> RN("python>=", kw.min_python.v)
      [] r = "mps" -> IF kw.mps = "True" THEN R("MPS") ELSE R("not MPS")
      [] OTHER -> R(Reasons([KwDefault EXCEPT ![r] = TRUE])[1].text)

Unmet == SelectSeq(Requirements, LAMBDA r : Requested(r) /\ ~Met(r))

\* C9: for every combination of requested requirements and availability
\* flags, RunIf marks the test as skipped exactly when a requested requirement
\* is unmet, and the reason lists exactly the unmet requested requirements in
\* the order they are evaluated.  (An exception of the CUDA probe that is none
\* of the two the code names is outside the claim.)
SkipIffUnmet ==
    (mark.state # "none" /\ ~(kw.bf16_cuda /\ sys.cuda_error = "other")) =>
        /\ mark.state = "marked"
        /\ mark.condition = (Unmet # <<>>)
        /\ Len(mark.reason) = IF Unmet = <<>> THEN 2 ELSE 2 * Len(Unmet) + 1
        /\ \A i \in 1..Len(Unmet) : mark.reason[2 * i] = Label(Unmet[i])

----------------------------------------------------------------------------
\* Properties of TracerPythonScript.

Finished(o) == pc = "idle" /\ outcome = o

\* C1: after a run() that returned normally, every declared output name that
\* is in the engine's result mapping is an instance attribute holding a Payload
\* around exactly the engine's value for that name.
OutputsWrapped ==
    Finished("ok") =>
        \A n \in Range(outputs) :
            n \in DOMAIN res =>
                /\ n \in initialized /\ n \in DOMAIN out_attrs
                /\ out_attrs[n].wrap = res[n].wrap + 1
                /\ out_attrs[n].val = res[n].val

OutputsWrappedWitness ==
    /\ Finished("ok")
    /\ Len(outputs) = 2 /\ outputs[1] # outputs[2]
    /\ res["x"] # res["y"]

\* C3: the output attributes are all unset or all populated from the latest
\* successful run(), and a run() that raises, in the engine or while the
\* outputs are copied, leaves every output attribute at its value before the call.
OutputsAllOrNothing ==
    pc = "idle" =>
        /\ \/ \A n \in Range(outputs) : out_attrs[n] = None
           \/ \A n \in Range(outputs) :
                n \in DOMAIN good_res /\ out_attrs[n] = Payload(good_res[n])
        /\ outcome \in {"engine_error", "after_error"} => out_attrs = attrs_pre

EnvironmentRestored ==
    Finished("ok") =>
        /\ os_environ = env_copy
        /\ proc_environ = env_copy
        /\ proc_environ = proc_pre

\* C5 as stated: when the engine raises, on_after_run is not called and every
\* configured override is still in the environment after the failed call.
OverridesInPlaceAfterRaise ==
    Finished("engine_error") =>
        /\ "afterRun" \notin Range(trace)
        /\ \A k \in DOMAIN env.map :
            k \in DOMAIN os_environ /\ os_environ[k] = env.map[k]

\* C5 amended: when the engine raises, on_after_run is not called, os.environ
\* is not rebound to the snapshot, and every configured override that the
\* script did not itself change during the call is still in os.environ.
NoRestoreAfterRaise ==
    Finished("engine_error") =>
        /\ "afterRun" \notin Range(trace)
        /\ "restore" \notin Range(trace)
        /\ \A k \in (DOMAIN env.map) \ script_written :
            k \in DOMAIN os_environ /\ os_environ[k] = env.map[k]

NoRestoreAfterRaiseWitness ==
    /\ Finished("engine_error")
    /\ \E k \in (DOMAIN env.map) \ script_written :
        /\ k \in DOMAIN os_environ /\ os_environ[k] = env.map[k]
        /\ k \notin DOMAIN env_copy \/ env_copy[k] # env.map[k]

\* C6 as stated: the steps of run() are, in order, beforeRun, context,
\* overlay, engine, restore, afterRun; nothing changes the execution context
\* or the module-level bindings before the beforeRun hook.
ClaimedOrder == <<"beforeRun", "context", "overlay", "engine", "restore", "afterRun">>

StepsInClaimedOrder ==
    /\ IsPrefix(trace, ClaimedOrder)
    /\ (pc # "idle" /\ "beforeRun" \notin Range(trace)) =>
            module_globals = globals_pre /\ init_globals = EmptyMap

\* C6 amended: the steps of run() are, in order and each at most once: the
\* context is built (which writes the keyword arguments into the module-level
\* bindings), then the beforeRun hook, then snapshot and overlay, then the
\* engine, then os.environ is rebound to the snapshot, then the afterRun hook;
\* the afterRun hook only runs with os.environ equal to the snapshot.
CodeOrder == <<"context", "beforeRun", "overlay", "engine", "restore", "afterRun">>

StepsInCodeOrder ==
    /\ IsPrefix(trace, CodeOrder)
    /\ pc = "on_before_run" =>
            init_globals = MapUpdate(globals_pre, kwargs) /\ module_globals = init_globals
    /\ (pc = "on_after_run" \/ "afterRun" \in Range(trace)) =>
            os_environ = env_copy /\ environ_kind = "dict"

StepsInCodeOrderWitness ==
    /\ Finished("ok")
    /\ trace = CodeOrder
    /\ Truthy(env)
    /\ DOMAIN passed # {}

\* C8: the context handed to the engine maps every keyword argument to its
\* value with a Payload replaced by what it wraps, never the Payload passed,
\* and every other name to its module-level binding; the keyword argument
\* wins over a module-level binding of the same name.
ContextUnwrapped ==
    pc = "trace" =>
        /\ \A k \in DOMAIN passed :
            /\ k \in DOMAIN init_globals
            /\ IF passed[k].wrap > 0
               THEN /\ init_globals[k] = [wrap |-> passed[k].wrap - 1, val |-> passed[k].val]
                    /\ init_globals[k] # passed[k]
               ELSE init_globals[k] = passed[k]
        /\ \A k \in (DOMAIN init_globals) \ (DOMAIN passed) :
            k \in DOMAIN globals_pre /\ init_globals[k] = globals_pre[k]
        /\ \A k \in DOMAIN globals_pre : k \in DOMAIN init_globals

ContextUnwrappedWitness ==
    /\ pc = "trace"
    /\ DOMAIN passed = {"logger"}
    /\ passed["logger"].wrap = 1
    /\ "p" \in DOMAIN globals_pre
    /\ init_globals["logger"] # globals_pre["logger"]

\* C10: run() writes the unwrapped keyword arguments into the module-level
\* bindings themselves, so a later run() that does not pass a name hands the
\* engine the value given by the latest earlier run() that passed it, also
\* when that run() raised.
BindingsPersist ==
    /\ outcome # "none" => module_globals = init_globals
    /\ pc = "trace" =>
        \A n \in (DOMAIN supplied) \ (DOMAIN passed) :
            n \in DOMAIN init_globals /\ init_globals[n] = supplied[n]

BindingsPersistWitness ==
    /\ pc = "trace"
    /\ "p" \notin DOMAIN passed
    /\ "p" \in supplied_failed
    /\ init_globals["p"] = Plain(1)

====
